---- MODULE Spec2Model ----
(***************************************************************************)
(* Model of the safe wrapper around libucl (src/src/lib.rs): the           *)
(* initialization gate, the buffer sizing rule, the error classifier and   *)
(* the four compression / decompression entry points.                     *)
(*                                                                         *)
(* Machine words are scaled: usize has USIZE_BITS bits and the native      *)
(* c_uint / u32 length parameter has C_UINT_BITS bits, so that every       *)
(* length is a small integer while the order                               *)
(*   256 < u32::MAX < isize::MAX < usize::MAX                              *)
(* of the 64-bit target is kept.                                           *)
(***************************************************************************)
EXTENDS Integers, Sequences, FiniteSets, TLC

VARIABLES
    INITIALIZED,      \* static INITIALIZED: AtomicBool
    overflow_checks,  \* build profile: TRUE = arithmetic overflow panics, FALSE = it wraps
    handshake_ok,     \* history: some __ucl_init2 call has returned 0
    pc,               \* pc[t]: where thread t stands
    init_returned,    \* history: init_returned[t] = a ucl_init call of t has returned
    call              \* call[t]: the API call thread t is in, or made last

vars == <<INITIALIZED, overflow_checks, handshake_ok, pc, init_returned, call>>

(***************************************************************************)
(* Machine words                                                           *)
(***************************************************************************)
USIZE_BITS == 11

C_UINT_BITS == 9

UsizeMax == 2^USIZE_BITS - 1

IsizeMax == 2^(USIZE_BITS - 1) - 1

U32Max == 2^C_UINT_BITS - 1

Min(a, b) == IF a < b THEN a ELSE b

Fill(b, n) == [i \in 1..n |-> b]

Take(s, n) == SubSeq(s, 1, n)

\* usize -> u32 conversion, `len.try_into()`
TryIntoU32(n) == [ok |-> n <= U32Max, v |-> IF n <= U32Max THEN n ELSE 0]

(***************************************************************************)
(* Buffer Sizing Calculator                                                *)
(***************************************************************************)
WorstCaseSlack == 256

\* the mathematical value of the sizing formula
ExactSize(n) == n + (n \div 8) + WorstCaseSlack

minimum_compression_buffer_size_off_by_one(src_len, checks) ==
    LET exact == src_len + (src_len \div 8) + WorstCaseSlack - 1
    IN  IF exact > UsizeMax
        THEN IF checks THEN [panic |-> TRUE, v |-> 0]
                       ELSE [panic |-> FALSE, v |-> exact % (UsizeMax + 1)]
        ELSE [panic |-> FALSE, v |-> exact]

\* src_len + (src_len / 8) + 256 in usize arithmetic; `checks` is the build's
\* overflow-checks setting: the additions panic on overflow when it is on,
\* and wrap modulo 2^USIZE_BITS when it is off
minimum_compression_buffer_size(src_len, checks) ==
    LET exact == src_len + (src_len \div 8) + WorstCaseSlack
    IN  IF exact > UsizeMax
        THEN IF checks THEN [panic |-> TRUE, v |-> 0]
                       ELSE [panic |-> FALSE, v |-> exact % (UsizeMax + 1)]
        ELSE [panic |-> FALSE, v |-> exact]

(***************************************************************************)
(* Error Classifier                                                        *)
(***************************************************************************)
UclErrorKind ==
    {"GenericError", "InvalidArgument", "OutOfMemory", "NotCompressible",
     "InputOverrun", "OutputOverrun", "LookbehindOverrun", "EofNotFound",
     "InputNotConsumed", "OverlapOverrun", "SrcTooLarge", "DstTooLarge",
     "DstTooSmall"}

UclErrorKind_from_swapped(code) ==
    CASE code = -2   -> "InvalidArgument"
      [] code = -3   -> "OutOfMemory"
      [] code = -101 -> "NotCompressible"
      [] code = -201 -> "OutputOverrun"
      [] code = -202 -> "InputOverrun"
      [] code = -203 -> "LookbehindOverrun"
      [] code = -204 -> "EofNotFound"
      [] code = -205 -> "InputNotConsumed"
      [] code = -206 -> "OverlapOverrun"
      [] OTHER       -> "GenericError"

UclErrorKind_from(code) ==
    CASE code = -2   -> "InvalidArgument"
      [] code = -3   -> "OutOfMemory"
      [] code = -101 -> "NotCompressible"
      [] code = -201 -> "InputOverrun"
      [] code = -202 -> "OutputOverrun"
      [] code = -203 -> "LookbehindOverrun"
      [] code = -204 -> "EofNotFound"
      [] code = -205 -> "InputNotConsumed"
      [] code = -206 -> "OverlapOverrun"
      [] OTHER       -> "GenericError"

(***************************************************************************)
(* Operation results: Result<u32, UclErrorKind>, Result<Vec<u8>, ...>, or  *)
(* a panic that ends the calling thread                                    *)
(***************************************************************************)
NoResult ==
    [kind |-> "None", has_len |-> FALSE, len |-> 0, has_buf |-> FALSE,
     buf |-> <<>>, err |-> "None", panic |-> "None"]

OkLen(n) == [NoResult EXCEPT !.kind = "Ok", !.has_len = TRUE, !.len = n]

OkBuf(b) == [NoResult EXCEPT !.kind = "Ok", !.has_buf = TRUE, !.buf = b]

Err(e) == [NoResult EXCEPT !.kind = "Err", !.err = e]

Panic(p) == [NoResult EXCEPT !.kind = "Panic", !.panic = p]

\* a read of bytes no one has written
UninitRead == [NoResult EXCEPT !.kind = "UB"]

(***************************************************************************)
(* The native routines.  libucl is an external library: only the extern    *)
(* declarations are part of the wrapper.  The routines are modelled by a   *)
(* literal-run codec that respects the library's documented worst case     *)
(* (n + n/8 + 256 output bytes) and the two compressed streams the tests   *)
(* name, together with every failure the status-code table allows.         *)
(***************************************************************************)
\* the compressed form of the empty input (tests::compress_buffer_nothing)
EofMarker == <<0, 0, 0, 0, 0, 4, 128, 255>>

\* groups of up to eight literal bytes, each led by its length, then the marker
Encode(x) ==
    LET n      == Len(x)
        groups == (n + 7) \div 8
        body   == n + groups
    IN  [i \in 1..(body + Len(EofMarker)) |->
            IF i > body THEN EofMarker[i - body]
            ELSE LET g == (i - 1) \div 9
                     r == (i - 1) % 9
                 IN  IF r = 0 THEN Min(8, n - 8 * g) ELSE x[8 * g + r]]

RECURSIVE DecodeFrom(_, _, _)
\* the decoder's walk over stream y from index i, with the output so far
DecodeFrom(y, i, out) ==
    IF i > Len(y) THEN [status |-> -204, out |-> out]
    ELSE LET k == y[i]
         IN  IF k = 0
             THEN IF Len(y) - i + 1 < Len(EofMarker)
                  THEN [status |-> -204, out |-> out]
                  ELSE IF SubSeq(y, i, i + Len(EofMarker) - 1) # EofMarker
                  THEN [status |-> -204, out |-> out]
                  ELSE IF Len(y) > i + Len(EofMarker) - 1
                  THEN [status |-> -205, out |-> out]
                  ELSE [status |-> 0, out |-> out]
             ELSE IF k > 8
             THEN [status |-> -203, out |-> out]
             ELSE IF i + k > Len(y)
             THEN [status |-> -201, out |-> out \o SubSeq(y, i + 1, Len(y))]
             ELSE DecodeFrom(y, i + 1 + k, out \o SubSeq(y, i + 1, i + k))

Decode(y) == DecodeFrom(y, 1, <<>>)

\* the first Len(out) bytes of the region replaced by out
Write(bytes, out) == out \o SubSeq(bytes, Len(out) + 1, Len(bytes))

\* status codes the library defines besides 0, and three it does not
NativeErrorCodes == {-1, -2, -3, -101, -201, -202, -203, -204, -205, -206, -207, 1}

\* what a call may do besides what the codec does: fail with any status
\* after writing part of its output, or break the length contract
NativeOther(dst_capacity, real_capacity, bytes) ==
    LET w == Min(Min(dst_capacity, real_capacity), 1)
    IN  { [status |-> c, dst_len |-> w, bytes |-> Write(bytes, Fill(255, w)),
           faithful |-> FALSE, oob |-> FALSE] : c \in NativeErrorCodes }
        \cup
        { [status |-> 0, dst_len |-> l,
           bytes |-> Write(bytes, Fill(255, Min(dst_capacity, real_capacity))),
           faithful |-> FALSE, oob |-> FALSE] :
             l \in {m \in {dst_capacity + 1} : m <= U32Max} }

\* ucl_nrv2b_decompress_safe_8(src, src_len, dst, &mut dst_len, null):
\* bounds-checked against the capacity in the length cell
ucl_nrv2b_decompress_safe_8(src, dst_capacity, real_capacity, bytes) ==
    LET d == Decode(src)
        n == Len(d.out)
    IN  { IF n > dst_capacity
          THEN [status |-> -202, dst_len |-> dst_capacity,
                bytes |-> Write(bytes, Take(d.out, Min(dst_capacity, real_capacity))),
                faithful |-> TRUE, oob |-> dst_capacity > real_capacity]
          ELSE [status |-> d.status, dst_len |-> n,
                bytes |-> Write(bytes, Take(d.out, Min(n, real_capacity))),
                faithful |-> TRUE, oob |-> n > real_capacity] }
        \cup NativeOther(dst_capacity, real_capacity, bytes)

\* ucl_nrv2b_99_compress(src, src_len, dst, &mut dst_len, null, 6, null, null):
\* writes its whole output, relying on the caller for the destination's size
ucl_nrv2b_99_compress(src, dst_capacity, real_capacity, bytes) ==
    LET e == Encode(src)
    IN  { [status |-> 0, dst_len |-> Len(e),
           bytes |-> Write(bytes, Take(e, Min(Len(e), real_capacity))),
           faithful |-> TRUE, oob |-> Len(e) > real_capacity] }
        \cup NativeOther(dst_capacity, real_capacity, bytes)

(***************************************************************************)
(* The wrapper.  Every entry point is split where it hands over to the     *)
(* native routine: `_enter` is the code up to the native call (the load of *)
(* INITIALIZED included, passed as `flag`), `_return` the code after it.   *)
(***************************************************************************)
NoNative ==
    [invoked |-> FALSE, routine |-> "none", src_len |-> 0, dst_capacity |-> 0,
     real_capacity |-> 0, status |-> 0, dst_len |-> 0, faithful |-> FALSE,
     oob |-> FALSE]

NativeCall(routine, src_len, dst_capacity, real_capacity) ==
    [NoNative EXCEPT !.invoked = TRUE, !.routine = routine, !.src_len = src_len,
                     !.dst_capacity = dst_capacity, !.real_capacity = real_capacity]

Done(result) == [stage |-> "done", result |-> result, native |-> NoNative]

Pending(native) == [stage |-> "native", result |-> NoResult, native |-> native]

ptr_return_unchecked(dst_capacity, status, dst_len) ==
    IF status = 0 THEN OkLen(dst_len) ELSE Err(UclErrorKind_from(status))

\* match res { 0 => { assert!(dst_len <= dst_capacity); Ok(dst_len) }, _ => Err(from(res)) }
ptr_return(dst_capacity, status, dst_len) ==
    IF status = 0
    THEN IF dst_len <= dst_capacity THEN OkLen(dst_len)
                                    ELSE Panic("LengthExceedsCapacity")
    ELSE Err(UclErrorKind_from(status))

decompress_ptr_enter(flag, src, dst_capacity, real_capacity) ==
    IF ~flag THEN Done(Panic("Uninitialized"))
    ELSE IF ~TryIntoU32(Len(src)).ok THEN Done(Err("SrcTooLarge"))
    ELSE Pending(NativeCall("decompress", TryIntoU32(Len(src)).v,
                            dst_capacity, real_capacity))

decompress_into_buffer_enter(flag, src, dst) ==
    IF ~TryIntoU32(Len(dst)).ok THEN Done(Err("DstTooLarge"))
    ELSE decompress_ptr_enter(flag, src, TryIntoU32(Len(dst)).v, Len(dst))

\* Vec::with_capacity(dst_capacity as usize), then decompress_ptr
decompress_enter(flag, src, dst_capacity) ==
    decompress_ptr_enter(flag, src, dst_capacity, dst_capacity)

compress_ptr_enter(flag, src, dst_capacity, real_capacity) ==
    IF ~flag THEN Done(Panic("Uninitialized"))
    ELSE IF ~TryIntoU32(Len(src)).ok THEN Done(Err("SrcTooLarge"))
    ELSE Pending(NativeCall("compress", TryIntoU32(Len(src)).v,
                            dst_capacity, real_capacity))

compress_into_buffer_enter_narrowing_first(flag, checks, src, dst) ==
    LET need == minimum_compression_buffer_size(Len(src), checks)
    IN  IF need.panic THEN Done(Panic("Overflow"))
        ELSE IF ~TryIntoU32(Len(dst)).ok THEN Done(Err("DstTooLarge"))
        ELSE IF Len(dst) < need.v THEN Done(Err("DstTooSmall"))
        ELSE compress_ptr_enter(flag, src, TryIntoU32(Len(dst)).v, Len(dst))

compress_into_buffer_enter_no_size_check(flag, checks, src, dst) ==
    IF ~TryIntoU32(Len(dst)).ok THEN Done(Err("DstTooLarge"))
    ELSE compress_ptr_enter(flag, src, TryIntoU32(Len(dst)).v, Len(dst))

compress_into_buffer_enter(flag, checks, src, dst) ==
    LET need == minimum_compression_buffer_size(Len(src), checks)
    IN  IF need.panic THEN Done(Panic("Overflow"))
        ELSE IF Len(dst) < need.v THEN Done(Err("DstTooSmall"))
        ELSE IF ~TryIntoU32(Len(dst)).ok THEN Done(Err("DstTooLarge"))
        ELSE compress_ptr_enter(flag, src, TryIntoU32(Len(dst)).v, Len(dst))

\* Vec::with_capacity panics when asked for more than isize::MAX bytes
compress_enter(flag, checks, src) ==
    LET capacity == minimum_compression_buffer_size(Len(src), checks)
    IN  IF capacity.panic THEN Done(Panic("Overflow"))
        ELSE IF capacity.v > IsizeMax THEN Done(Panic("CapacityOverflow"))
        ELSE IF ~TryIntoU32(capacity.v).ok THEN Done(Err("DstTooLarge"))
        ELSE compress_ptr_enter(flag, src, TryIntoU32(capacity.v).v, capacity.v)

vec_return_short(r, bytes) ==
    IF r.kind = "Ok"
    THEN IF r.len <= Len(bytes) THEN OkBuf(Take(bytes, r.len - Min(r.len, 1)))
                                ELSE UninitRead
    ELSE r

vec_return_keeps_buffer(r, bytes) ==
    IF r.kind = "Ok"
    THEN IF r.len <= Len(bytes) THEN OkBuf(Take(bytes, r.len)) ELSE UninitRead
    ELSE [r EXCEPT !.has_buf = TRUE, !.buf = bytes]

\* let new_length = ..._ptr(...)?; dst.set_len(new_length as usize); Ok(dst)
vec_return(r, bytes) ==
    IF r.kind = "Ok"
    THEN IF r.len <= Len(bytes) THEN OkBuf(Take(bytes, r.len)) ELSE UninitRead
    ELSE r

(***************************************************************************)
(* Calls                                                                   *)
(***************************************************************************)
\* op: the entry point; src: its source; arg: the dst_capacity of decompress
\* or the src_len of minimum_compression_buffer_size; dst_before / dst: the
\* caller's destination slice at entry / now; origin: the plain text when src
\* is the output of an earlier compression; stage, native, result: how far
\* the call is, what it handed to the native routine, what it returned
NoCall ==
    [op |-> "none", src |-> <<>>, arg |-> 0, dst_before |-> <<>>, dst |-> <<>>,
     origin_known |-> FALSE, origin |-> <<>>, stage |-> "none",
     native |-> NoNative, result |-> NoResult]

Entered(op, choice, arg, dst, e) ==
    [op |-> op, src |-> choice.src, arg |-> arg, dst_before |-> dst, dst |-> dst,
     origin_known |-> choice.known, origin |-> choice.origin, stage |-> e.stage,
     native |-> e.native, result |-> e.result]

VecOps == {"compress", "decompress"}

IntoBufferOps == {"compress_into_buffer", "decompress_into_buffer"}

FourOps == VecOps \cup IntoBufferOps

\* what the native routine may do with the pending call c
Outcomes(c) ==
    IF c.native.routine = "compress"
    THEN ucl_nrv2b_99_compress(c.src, c.native.dst_capacity,
                               c.native.real_capacity, c.dst)
    ELSE ucl_nrv2b_decompress_safe_8(c.src, c.native.dst_capacity,
                                     c.native.real_capacity, c.dst)

\* the call c once the native routine has returned with outcome o
Returned(c, o) ==
    LET r == ptr_return(c.native.dst_capacity, o.status, o.dst_len)
        n == [c.native EXCEPT !.status = o.status, !.dst_len = o.dst_len,
                              !.faithful = o.faithful, !.oob = o.oob]
    IN  IF c.op \in VecOps
        THEN [c EXCEPT !.stage = "done", !.native = n,
                       !.result = vec_return(r, o.bytes)]
        ELSE [c EXCEPT !.stage = "done", !.native = n, !.result = r,
                       !.dst = Take(o.bytes, Len(c.dst_before))]

Finals(c) ==
    IF c.stage = "native" THEN {Returned(c, o) : o \in Outcomes(c)} ELSE {c}

PcAfter(c) ==
    IF c.stage = "native" THEN "native"
    ELSE IF c.result.kind \in {"Panic", "UB"} THEN "panicked"
    ELSE "idle"

(***************************************************************************)
(* Inputs                                                                  *)
(***************************************************************************)
Threads == {"main", "worker"}

MainThread == "main"

\* the source of tests::compress_buffer_too_small
DeadBeef == <<222, 173, 190, 239>>

\* the byte the tests fill destinations with (0xa5)
Sentinel == 165

\* the longest source whose worst-case output still fits the native length
MaxCompressible ==
    CHOOSE n \in 0..U32Max : ExactSize(n) <= U32Max /\ ExactSize(n + 1) > U32Max

\* the longest length whose sizing formula still fits usize
MaxSizable ==
    CHOOSE n \in 0..UsizeMax : ExactSize(n) <= UsizeMax /\ ExactSize(n + 1) > UsizeMax

SrcInputs ==
    {<<>>, DeadBeef, EofMarker, Encode(DeadBeef), Take(Encode(DeadBeef), 3)}
    \cup {Fill(0, n) : n \in {MaxCompressible, MaxCompressible + 1, U32Max + 1, IsizeMax}}

DstInputs ==
    {Fill(Sentinel, n) : n \in {0, 4, ExactSize(0), ExactSize(4), U32Max, U32Max + 1}}

CapacityInputs == {0, 3, 4, MaxCompressible, U32Max}

SizeInputs ==
    {0, 1, 8, 1024, U32Max, IsizeMax, MaxSizable, MaxSizable + 1, UsizeMax}

ThreadSrcInputs == {EofMarker, DeadBeef}

ThreadDstInputs == {Fill(Sentinel, n) : n \in {4, ExactSize(4)}}

ThreadCapacityInputs == {4}

ThreadStatuses == {0, -202}

HandshakeResults == {0, -1}

\* the output of thread t's last call, when that was a successful compression
Produced(t) ==
    LET c == call[t]
    IN  IF c.stage = "done" /\ c.result.kind = "Ok" /\ c.op = "compress"
        THEN {[src |-> c.result.buf, known |-> TRUE, origin |-> c.src]}
        ELSE IF c.stage = "done" /\ c.result.kind = "Ok" /\ c.op = "compress_into_buffer"
        THEN {[src |-> Take(c.dst, c.result.len), known |-> TRUE, origin |-> c.src]}
        ELSE {}

Fresh(S) == {[src |-> s, known |-> FALSE, origin |-> <<>>] : s \in S}

\* a caller holds one result at a time: it calls with fresh input when it holds
\* none, or feeds the compressed bytes it holds to a decompression
SrcChoices(t, S) == IF call[t].stage = "none" THEN Fresh(S) ELSE Produced(t)

(***************************************************************************)
(* Actions                                                                 *)
(***************************************************************************)
Init ==
    /\ INITIALIZED = FALSE
    /\ overflow_checks \in BOOLEAN
    /\ handshake_ok = FALSE
    /\ pc = [t \in Threads |-> "idle"]
    /\ init_returned = [t \in Threads |-> FALSE]
    /\ call = [t \in Threads |-> NoCall]

\* a call made and run to its end in one step
Settle(t, c) ==
    /\ pc[t] = "idle"
    /\ call[t].stage = "none" \/ c.origin_known
    /\ \E f \in Finals(c) :
          /\ call' = [call EXCEPT ![t] = f]
          /\ pc' = [pc EXCEPT ![t] = PcAfter(f)]
    /\ UNCHANGED <<INITIALIZED, overflow_checks, handshake_ok, init_returned>>

\* a call run up to the point where the native routine takes over
Start(t, c) ==
    /\ pc[t] = "idle"
    /\ call[t].stage = "none" \/ c.origin_known
    /\ call' = [call EXCEPT ![t] = c]
    /\ pc' = [pc EXCEPT ![t] = PcAfter(c)]
    /\ UNCHANGED <<INITIALIZED, overflow_checks, handshake_ok, init_returned>>

handshake_passes_unasserted(res) == TRUE

\* assert!(res == 0, "ucl init failed ...")
handshake_passes(res) == res = 0

InitCall(passed) ==
    [NoCall EXCEPT !.op = "ucl_init", !.stage = "done",
                   !.result = IF passed THEN [NoResult EXCEPT !.kind = "Ok"]
                                        ELSE Panic("InitFailed")]

\* ucl_init(): the handshake, the assertion, INITIALIZED.store(true, Release)
ucl_init(t) ==
    /\ pc[t] = "idle"
    /\ call[t].stage = "none"
    /\ \E res \in HandshakeResults :
          /\ handshake_ok' = (handshake_ok \/ res = 0)
          /\ call' = [call EXCEPT ![t] = InitCall(handshake_passes(res))]
          /\ IF handshake_passes(res)
             THEN /\ INITIALIZED' = TRUE
                  /\ init_returned' = [init_returned EXCEPT ![t] = TRUE]
                  /\ pc' = pc
             ELSE /\ pc' = [pc EXCEPT ![t] = "panicked"]
                  /\ UNCHANGED <<INITIALIZED, init_returned>>
    /\ UNCHANGED overflow_checks

decompress_into_buffer(t) ==
    \E sc \in SrcChoices(t, SrcInputs), dst \in DstInputs :
        Settle(t, Entered("decompress_into_buffer", sc, 0, dst,
                          decompress_into_buffer_enter(INITIALIZED, sc.src, dst)))

decompress(t) ==
    \E sc \in SrcChoices(t, SrcInputs), dst_capacity \in CapacityInputs :
        Settle(t, Entered("decompress", sc, dst_capacity, <<>>,
                          decompress_enter(INITIALIZED, sc.src, dst_capacity)))

compress_into_buffer(t) ==
    \E sc \in Fresh(SrcInputs), dst \in DstInputs :
        Settle(t, Entered("compress_into_buffer", sc, 0, dst,
                          compress_into_buffer_enter(INITIALIZED, overflow_checks,
                                                     sc.src, dst)))

compress(t) ==
    \E sc \in Fresh(SrcInputs) :
        Settle(t, Entered("compress", sc, 0, <<>>,
                          compress_enter(INITIALIZED, overflow_checks, sc.src)))

SizeCall(n, m) ==
    [NoCall EXCEPT !.op = "minimum_compression_buffer_size", !.arg = n,
                   !.stage = "done",
                   !.result = IF m.panic THEN Panic("Overflow") ELSE OkLen(m.v)]

sizing(t) ==
    \E n \in SizeInputs :
        Settle(t, SizeCall(n, minimum_compression_buffer_size(n, overflow_checks)))

\* the caller lets go of the result it holds (`let _result = compress(data);`)
drop_result(t) ==
    /\ pc[t] = "idle"
    /\ call[t].stage = "done"
    /\ call' = [call EXCEPT ![t] = NoCall]
    /\ UNCHANGED <<INITIALIZED, overflow_checks, handshake_ok, pc, init_returned>>

Next ==
    \/ ucl_init(MainThread)
    \/ decompress_into_buffer(MainThread)
    \/ decompress(MainThread)
    \/ compress_into_buffer(MainThread)
    \/ compress(MainThread)
    \/ sizing(MainThread)
    \/ drop_result(MainThread)

Spec == Init /\ [][Next]_vars

(***************************************************************************)
(* Threads: the same entry points, one step per atomic access or native    *)
(* call, taken by every thread in any order                                *)
(***************************************************************************)
\* ucl_init enters __ucl_init2
ucl_init_call(t) ==
    /\ pc[t] = "idle"
    /\ call[t].stage = "none"
    /\ call' = [call EXCEPT ![t] = [NoCall EXCEPT !.op = "ucl_init",
                                                  !.stage = "handshake"]]
    /\ pc' = [pc EXCEPT ![t] = "handshake"]
    /\ UNCHANGED <<INITIALIZED, overflow_checks, handshake_ok, init_returned>>

\* __ucl_init2 returns and the assertion is evaluated
ucl_init_handshake_return(t) ==
    /\ pc[t] = "handshake"
    /\ \E res \in HandshakeResults :
          /\ handshake_ok' = (handshake_ok \/ res = 0)
          /\ IF handshake_passes(res)
             THEN /\ pc' = [pc EXCEPT ![t] = "store"]
                  /\ call' = call
             ELSE /\ pc' = [pc EXCEPT ![t] = "panicked"]
                  /\ call' = [call EXCEPT ![t] = InitCall(FALSE)]
    /\ UNCHANGED <<INITIALIZED, overflow_checks, init_returned>>

\* INITIALIZED.store(true, Ordering::Release), and ucl_init returns
ucl_init_store(t) ==
    /\ pc[t] = "store"
    /\ INITIALIZED' = TRUE
    /\ init_returned' = [init_returned EXCEPT ![t] = TRUE]
    /\ call' = [call EXCEPT ![t] = InitCall(TRUE)]
    /\ pc' = [pc EXCEPT ![t] = "idle"]
    /\ UNCHANGED <<overflow_checks, handshake_ok>>

decompress_into_buffer_begin(t) ==
    \E sc \in SrcChoices(t, ThreadSrcInputs), dst \in ThreadDstInputs :
        Start(t, Entered("decompress_into_buffer", sc, 0, dst,
                         decompress_into_buffer_enter(INITIALIZED, sc.src, dst)))

decompress_begin(t) ==
    \E sc \in SrcChoices(t, ThreadSrcInputs), dst_capacity \in ThreadCapacityInputs :
        Start(t, Entered("decompress", sc, dst_capacity, <<>>,
                         decompress_enter(INITIALIZED, sc.src, dst_capacity)))

compress_into_buffer_begin(t) ==
    \E sc \in Fresh(ThreadSrcInputs), dst \in ThreadDstInputs :
        Start(t, Entered("compress_into_buffer", sc, 0, dst,
                         compress_into_buffer_enter(INITIALIZED, overflow_checks,
                                                    sc.src, dst)))

compress_begin(t) ==
    \E sc \in Fresh(ThreadSrcInputs) :
        Start(t, Entered("compress", sc, 0, <<>>,
                         compress_enter(INITIALIZED, overflow_checks, sc.src)))

\* the native routine returns and the entry point runs to its end
native_return(t) ==
    /\ pc[t] = "native"
    /\ \E o \in {x \in Outcomes(call[t]) : x.status \in ThreadStatuses} :
          /\ call' = [call EXCEPT ![t] = Returned(call[t], o)]
          /\ pc' = [pc EXCEPT ![t] = PcAfter(Returned(call[t], o))]
    /\ UNCHANGED <<INITIALIZED, overflow_checks, handshake_ok, init_returned>>

ThreadsNext ==
    \E t \in Threads :
        \/ ucl_init_call(t)
        \/ ucl_init_handshake_return(t)
        \/ ucl_init_store(t)
        \/ decompress_into_buffer_begin(t)
        \/ decompress_begin(t)
        \/ compress_into_buffer_begin(t)
        \/ compress_begin(t)
        \/ native_return(t)
        \/ drop_result(t)

SpecThreads == Init /\ [][ThreadsNext]_vars

(***************************************************************************)
(* Properties                                                              *)
(***************************************************************************)
Finished(t) == call[t].stage = "done" /\ call[t].op \in FourOps

\* C1: a compression or decompression call made while INITIALIZED is false
\* panics; it returns neither success nor an error kind.
C1_UninitializedCallFailsFast ==
    \A t \in Threads :
        (Finished(t) /\ ~INITIALIZED) => call[t].result.kind = "Panic"

\* C2: a successful call returns a used length (or a buffer of a length) no
\* greater than the capacity passed to the native routine in the length cell,
\* and a native status 0 with a larger length cell makes the call panic.
C2_UsedLengthWithinCapacity ==
    \A t \in Threads :
        Finished(t) =>
            LET c == call[t]
            IN  /\ c.result.kind = "Ok" =>
                     /\ c.native.invoked
                     /\ c.result.has_len => c.result.len <= c.native.dst_capacity
                     /\ c.result.has_buf => Len(c.result.buf) <= c.native.dst_capacity
                /\ (c.native.invoked /\ c.native.status = 0
                      /\ c.native.dst_len > c.native.dst_capacity) =>
                     /\ c.result.kind = "Panic"
                     /\ ~c.result.has_len /\ ~c.result.has_buf
                     /\ c.result.err = "None"

C2_LengthContractBroken ==
    /\ Finished(MainThread)
    /\ call[MainThread].native.invoked
    /\ call[MainThread].native.status = 0
    /\ call[MainThread].native.dst_len > call[MainThread].native.dst_capacity
    /\ call[MainThread].result.kind = "Panic"

\* C3: the native compression routine is only ever given a capacity that is
\* at least the sizing formula of the source length and at most the real size
\* of the destination, and compress never fails with DstTooSmall.
C3_CompressionCapacitySufficient ==
    \A t \in Threads :
        LET c == call[t]
        IN  /\ (c.native.invoked /\ c.native.routine = "compress") =>
                 /\ c.native.dst_capacity >= ExactSize(Len(c.src))
                 /\ c.native.dst_capacity <= c.native.real_capacity
                 /\ c.op = "compress_into_buffer" =>
                        c.native.real_capacity = Len(c.dst_before)
                 /\ c.op = "compress" =>
                        c.native.real_capacity = ExactSize(Len(c.src))
                 /\ ~c.native.oob
            /\ c.op = "compress" => c.result.err # "DstTooSmall"

C3_CompressAtNativeLimit ==
    /\ call[MainThread].op = "compress"
    /\ call[MainThread].native.invoked
    /\ Len(call[MainThread].src) = MaxCompressible
    /\ call[MainThread].native.dst_capacity = U32Max

C5_TooLargeKinds ==
    \A t \in Threads :
        (Finished(t) /\ INITIALIZED) =>
            LET c == call[t]
            IN  /\ Len(c.src) > U32Max =>
                     /\ c.result.kind = "Err"
                     /\ c.result.err = "SrcTooLarge"
                     /\ ~c.native.invoked
                /\ (c.op \in IntoBufferOps /\ Len(c.dst_before) > U32Max) =>
                     /\ c.result.kind = "Err"
                     /\ c.result.err = "DstTooLarge"
                     /\ ~c.native.invoked

\* the table of native status codes and their error kinds
StatusTable ==
    <<<<-2, "InvalidArgument">>, <<-3, "OutOfMemory">>, <<-101, "NotCompressible">>,
      <<-201, "InputOverrun">>, <<-202, "OutputOverrun">>,
      <<-203, "LookbehindOverrun">>, <<-204, "EofNotFound">>,
      <<-205, "InputNotConsumed">>, <<-206, "OverlapOverrun">>>>

TableKind(code) ==
    IF \E i \in DOMAIN StatusTable : StatusTable[i][1] = code
    THEN StatusTable[CHOOSE i \in DOMAIN StatusTable : StatusTable[i][1] = code][2]
    ELSE "GenericError"

WrapperKinds == {"SrcTooLarge", "DstTooLarge", "DstTooSmall"}

\* C6 (as amended): a native status 0 never yields an error kind, and yields
\* success whenever the length cell is within the capacity passed in; a
\* non-zero status yields exactly the error kind of the table, GenericError
\* for a code the table does not list, and never a wrapper-made kind.
C6_StatusClassification ==
    \A t \in Threads :
        (Finished(t) /\ call[t].native.invoked) =>
            LET c == call[t]
            IN  /\ c.native.status = 0 =>
                     /\ c.result.kind # "Err"
                     /\ c.native.dst_len <= c.native.dst_capacity =>
                            c.result.kind = "Ok"
                /\ c.native.status # 0 =>
                     /\ c.result.kind = "Err"
                     /\ c.result.err = TableKind(c.native.status)
                     /\ c.result.err \notin WrapperKinds

\* C6 (as stated): a native status 0 always makes the operation succeed.
C6_ZeroStatusSucceeds ==
    \A t \in Threads :
        (Finished(t) /\ call[t].native.invoked /\ call[t].native.status = 0) =>
            call[t].result.kind = "Ok"

C6_OverlapOverrunClassified ==
    /\ Finished(MainThread)
    /\ call[MainThread].native.status = -206
    /\ call[MainThread].result.err = "OverlapOverrun"

Sized(t) == call[t].stage = "done" /\ call[t].op = "minimum_compression_buffer_size"

\* C7 (as amended): minimum_compression_buffer_size(n) is n + n/8 + 256
\* whenever that value fits the machine word, which it does for n = 0 and for
\* every slice length; when it does not fit, the call panics in a build with
\* overflow checks and returns the value wrapped to the word otherwise.
C7_SizingExactWhenRepresentable ==
    \A t \in Threads :
        Sized(t) =>
            LET n == call[t].arg
                r == call[t].result
            IN  /\ ExactSize(n) <= UsizeMax =>
                     r.kind = "Ok" /\ r.len = n + (n \div 8) + 256
                /\ n <= IsizeMax => ExactSize(n) <= UsizeMax
                /\ ExactSize(n) > UsizeMax =>
                     IF overflow_checks
                     THEN r.kind = "Panic"
                     ELSE r.kind = "Ok" /\ r.len = ExactSize(n) - (UsizeMax + 1)

\* C7 (as stated): minimum_compression_buffer_size(n) is n + n/8 + 256 for
\* every n of the machine word, without overflow and without a panic.
C7_SizingExactForEveryWord ==
    \A t \in Threads :
        Sized(t) =>
            /\ call[t].result.kind = "Ok"
            /\ call[t].result.len = ExactSize(call[t].arg)

C7_LargestSizableLength ==
    /\ Sized(MainThread)
    /\ call[MainThread].arg = MaxSizable
    /\ call[MainThread].result.kind = "Ok"
    /\ call[MainThread].result.len = ExactSize(MaxSizable)

\* the native routine, where it was called, behaved as the codec
NativeFaithful(c) == c.native.invoked => c.native.faithful

C9_ErrorCarriesNoOutput ==
    \A t \in Threads :
        (Finished(t) /\ call[t].result.kind = "Err") =>
            LET c == call[t]
            IN  /\ ~c.result.has_len
                /\ ~c.result.has_buf
                /\ c.result.buf = <<>>
                /\ ~c.native.invoked => c.dst = c.dst_before

\* C9 (as stated): a call that returns an error kind leaves nothing the
\* native routine wrote where the caller can see it.
C9_ErrorLeavesDestination ==
    \A t \in Threads :
        (Finished(t) /\ call[t].result.kind = "Err" /\ NativeFaithful(call[t])) =>
            /\ ~call[t].result.has_len
            /\ ~call[t].result.has_buf
            /\ call[t].dst = call[t].dst_before

C9_OverrunAfterPartialOutput ==
    /\ Finished(MainThread)
    /\ call[MainThread].op = "decompress_into_buffer"
    /\ call[MainThread].result.err = "OutputOverrun"
    /\ call[MainThread].native.faithful
    /\ call[MainThread].dst # call[MainThread].dst_before

\* C10: with threads running ucl_init and the operations in any order, the
\* flag is true once any ucl_init has returned, no native compression or
\* decompression call is under way or done unless a handshake has returned 0,
\* and a thread whose own ucl_init has returned does not panic for want of
\* initialization.
C10_GateUnderConcurrency ==
    \A t \in Threads :
        /\ init_returned[t] => INITIALIZED
        /\ INITIALIZED => handshake_ok
        /\ (pc[t] = "native" \/ call[t].native.invoked) => handshake_ok
        /\ init_returned[t] => call[t].result.panic # "Uninitialized"

C10_ConcurrentFirstInitialization ==
    /\ pc["worker"] = "handshake"
    /\ ~init_returned["worker"]
    /\ init_returned["main"]
    /\ pc["main"] = "native"

\* the step completes a call of thread t to one of the entry points in ops
Completes(t, ops) ==
    /\ call'[t] # call[t]
    /\ call'[t].stage = "done"
    /\ call'[t].op \in ops

\* C11: the flag is false at the start; it is true only if a handshake has
\* returned 0; a ucl_init whose handshake returns non-zero panics and leaves
\* the flag as it was; once true the flag stays true, so a further successful
\* ucl_init leaves it unchanged; and no compression, decompression or sizing
\* call writes it: it changes only in a step that completes a successful ucl_init.
C11_FlagLifecycle ==
    /\ ~INITIALIZED
    /\ [](INITIALIZED => handshake_ok)
    /\ [][ /\ INITIALIZED => INITIALIZED'
           /\ \A t \in Threads :
                /\ (Completes(t, {"ucl_init"}) /\ call'[t].result.kind = "Panic") =>
                       /\ INITIALIZED' = INITIALIZED
                       /\ pc'[t] = "panicked"
                /\ (Completes(t, {"ucl_init"}) /\ call'[t].result.kind = "Ok") =>
                       /\ INITIALIZED'
                       /\ handshake_ok'
                       /\ INITIALIZED => UNCHANGED <<INITIALIZED, handshake_ok>>
                /\ Completes(t, FourOps \cup {"minimum_compression_buffer_size"}) =>
                       UNCHANGED INITIALIZED
           /\ INITIALIZED' # INITIALIZED =>
                \E t \in Threads :
                    Completes(t, {"ucl_init"}) /\ call'[t].result.kind = "Ok"
         ]_vars

C11_FailedHandshakeAfterInitialization ==
    /\ INITIALIZED
    /\ handshake_ok
    /\ init_returned[MainThread]
    /\ call[MainThread].op = "ucl_init"
    /\ call[MainThread].result.panic = "InitFailed"
    /\ pc[MainThread] = "panicked"

====
